---- MODULE Spec2Model ----
(***************************************************************************)
(* Model of the seeding job of FastFila (src/main.py):                     *)
(* seed_questions_from_file reads questions.txt, skips titles already in   *)
(* the questions table, asks the generator for an answer to every other    *)
(* title, inserts and commits each answer, collects failures, and stops    *)
(* when the client has disconnected.                                       *)
(*                                                                         *)
(* Several requests can be in flight on the one event loop.  A request     *)
(* runs without interruption between two awaits, so one action of the      *)
(* model is the code between two awaits:                                   *)
(*   Start         entry of the handler up to the first                    *)
(*                 "await request.is_disconnected()" (or the return)       *)
(*   AfterPoll     return of the poll up to "await asyncio.to_thread(...)" *)
(*                 (or the next poll after a skip, or the return)          *)
(*   AfterGenerate return of the generator call up to the next poll (or    *)
(*                 the return)                                             *)
(*   Disconnect    the client of a request goes away (environment)         *)
(*                                                                         *)
(* Every request opens its own sqlite3 connection (get_db).  The           *)
(* connection is modelled with what the sqlite3 module does for the three  *)
(* statements used: a SELECT takes a shared lock, the first INSERT opens   *)
(* an implicit transaction (BEGIN) and takes the reserved lock, commit     *)
(* needs the exclusive lock, a failed statement leaves the transaction     *)
(* (and its locks) open, close rolls an open transaction back.             *)
(***************************************************************************)
EXTENDS Naturals, Sequences, FiniteSets

(* ---------------------------- bounds ----------------------------------- *)
\* longest questions.txt (in lines) a request reads
MaxLen == 2

\* the requests that may be in flight together
Runs == {"r1", "r2"}

\* the lines (terminators dropped) of the files read by requests that
\* run together: two titles, one of them with white space around it
Lines == { <<"a">>, <<" ", "b", " ">> }

\* longest questions.txt read by requests that run one after the other
SeqMaxLen == 2

\* the lines of those files: an empty line, a line of white space, and
\* titles with and without white space around them
SeqLines == { <<>>, <<" ">>, <<"a">>, <<" ", "a", " ">>, <<"b">> }

RECURSIVE SeqsUpTo(_, _)
SeqsUpTo(S, n) ==
    IF n = 0 THEN { <<>> }
    ELSE LET shorter == SeqsUpTo(S, n - 1)
         IN  shorter \cup { Append(s, x) : s \in { t \in shorter : Len(t) = n - 1 }, x \in S }

\* the contents questions.txt can have
SourceLists == SeqsUpTo(Lines, MaxLen)
SeqSourceLists == SeqsUpTo(SeqLines, SeqMaxLen)

\* what the generator call can come back with: an exception, a response
\* whose message content is None, an empty text, a text
GenRaise == "RAISE"
NoneContent == "NONE"
GenOutcomes == { GenRaise, NoneContent, "", "md" }

(* --------------------------- variables --------------------------------- *)
VARIABLES
    store,               \* committed rows of table questions, in id order
    conn,                \* conn[r]: the sqlite3 connection of request r
    pc,                  \* pc[r]: "idle", "poll", "gen", "done"
    questions_to_process,\* questions_to_process[r]: the normalized list
    idx,                 \* idx[r]: position of the current title in the list
    processed_count,     \* processed_count[r]
    failed_questions,    \* failed_questions[r]
    disconnected,        \* disconnected[r]: the client of r is gone
    response,            \* response[r]: what the handler returned
    log                  \* log[r]: what request r has done so far (history)

vars == << store, conn, pc, questions_to_process, idx, processed_count,
           failed_questions, disconnected, response, log >>

(* ------------------------- pure functions ------------------------------ *)
IsSpace(ch) == ch = " "

RECURSIVE LStrip(_)
LStrip(s) == IF s = <<>> THEN s
             ELSE IF IsSpace(Head(s)) THEN LStrip(Tail(s)) ELSE s

RECURSIVE RStrip(_)
RStrip(s) == IF s = <<>> THEN s
             ELSE IF IsSpace(s[Len(s)]) THEN RStrip(SubSeq(s, 1, Len(s) - 1)) ELSE s

\* str.strip()
Strip(s) == RStrip(LStrip(s))

\* a normalization that trims the lines and keeps the blank ones
RECURSIVE NormalizeDropsNothing(_)
NormalizeDropsNothing(lines) ==
    IF lines = <<>> THEN <<>>
    ELSE <<Strip(Head(lines))>> \o NormalizeDropsNothing(Tail(lines))

\* [line.strip() for line in f if line.strip()]
RECURSIVE Normalize(_)
Normalize(lines) ==
    IF lines = <<>> THEN <<>>
    ELSE LET t == Strip(Head(lines))
         IN  (IF t = <<>> THEN <<>> ELSE <<t>>) \o Normalize(Tail(lines))

Range(s) == { s[i] : i \in 1..Len(s) }
Titles(rows) == { rows[i].title : i \in 1..Len(rows) }

(* --------------------------- the database ------------------------------ *)
ClosedConn == [ in_transaction |-> FALSE, lock |-> "NONE", pending |-> <<>> ]

\* the rows a connection sees: the committed ones and its own uncommitted
View(c) == store \o c.pending

\* some other connection holds a lock of one of the given kinds
OtherHolds(r, kinds) == \E o \in Runs \ {r} : conn[o].lock \in kinds

\* a table whose title column is not UNIQUE
UniqueConstraintOff(rows, title) == FALSE

\* title TEXT NOT NULL UNIQUE
UniqueViolation(rows, title) == title \in Titles(rows)

\* content TEXT NOT NULL
NotNullViolation(content) == content = NoneContent

\* a handler without the duplicate check
SqlSelectFindsNothing(r, title) == [ error |-> FALSE, found |-> FALSE, conn |-> conn[r] ]

\* cursor.execute("SELECT id FROM questions WHERE title = ?") ; fetchone()
\* error: the database is locked (sqlite3.OperationalError)
SqlSelect(r, title) ==
    LET c    == conn[r]
        busy == c.lock = "NONE" /\ OtherHolds(r, {"PENDING"})
    IN  [ error |-> busy,
          found |-> ~busy /\ title \in Titles(View(c)),
          conn  |-> IF ~busy /\ c.in_transaction /\ c.lock = "NONE"
                    THEN [c EXCEPT !.lock = "SHARED"] ELSE c ]

\* cursor.execute("INSERT INTO questions (title, content) VALUES (?, ?)")
\* error: "none", "IntegrityError" or "OperationalError"
SqlInsert(r, title, content) ==
    LET c    == [conn[r] EXCEPT !.in_transaction = TRUE]
        busy == c.lock \in {"NONE", "SHARED"} /\ OtherHolds(r, {"RESERVED", "PENDING"})
        w    == IF c.lock \in {"NONE", "SHARED"} THEN [c EXCEPT !.lock = "RESERVED"] ELSE c
        row  == [ id |-> Len(View(c)) + 1, title |-> title, content |-> content ]
    IN  IF busy THEN [ error |-> "OperationalError", conn |-> c ]
        ELSE IF NotNullViolation(content) \/ UniqueViolation(View(c), title)
        THEN [ error |-> "IntegrityError", conn |-> w ]
        ELSE [ error |-> "none", conn |-> [w EXCEPT !.pending = Append(@, row)] ]

\* a handler that does not commit: the rows stay in the open transaction
SqlCommitMissing(r, c) == [ error |-> FALSE, conn |-> c, store |-> store ]

\* a commit that leaves only the rows of this transaction in the table
SqlCommitReplaces(r, c) == [ error |-> FALSE, conn |-> ClosedConn, store |-> c.pending ]

\* conn.commit() on connection value c of request r
\* error: the database is locked (sqlite3.OperationalError)
SqlCommit(r, c) ==
    LET busy == OtherHolds(r, {"SHARED", "RESERVED", "PENDING"})
    IN  IF busy THEN [ error |-> TRUE, conn |-> [c EXCEPT !.lock = "PENDING"], store |-> store ]
        ELSE [ error |-> FALSE, conn |-> ClosedConn, store |-> store \o c.pending ]

(* --------------------------- responses --------------------------------- *)
NoResponse == [ status |-> 0, processed_count |-> 0, failed_questions |-> <<>> ]

\* raise HTTPException(status_code=...)
HttpError(code) == [ status |-> code, processed_count |-> 0, failed_questions |-> <<>> ]

\* a 499 result that counts the title at which the loop stopped
CancelResponseCountsCurrent(p, fl) ==
    [ status |-> 499, processed_count |-> p + 1, failed_questions |-> <<>> ]

\* JSONResponse(status_code=499, ...): the message carries processed_count,
\* the content has no "failed_questions"
CancelResponse(p, fl) == [ status |-> 499, processed_count |-> p, failed_questions |-> <<>> ]

\* a return after the loop that does not look at failed_questions
FinalResponseAlwaysOk(p, fl) ==
    [ status |-> 200, processed_count |-> p, failed_questions |-> <<>> ]

\* a 207 result without the "failed_questions" key
FinalResponseWithoutList(p, fl) ==
    [ status |-> IF fl # <<>> THEN 207 ELSE 200, processed_count |-> p,
      failed_questions |-> <<>> ]

\* the two returns after the loop
FinalResponse(p, fl) ==
    IF fl # <<>>
    THEN [ status |-> 207, processed_count |-> p, failed_questions |-> fl ]
    ELSE [ status |-> 200, processed_count |-> p, failed_questions |-> <<>> ]

(* ----------------------------- Init ------------------------------------ *)
\* log[r] records the inputs of request r and what it has done:
\*   file_exists, key_set, lines   what the request found when it started
\*   polls, selects, gens, inserts the calls made: is_disconnected, the
\*                                 SELECT, the generator, the INSERT
\*   outcomes                      how each title attempted so far ended:
\*      "skipped"        the SELECT found the title
\*      "gen_failed"     the generator call raised
\*      "stored"         INSERT and commit succeeded
\*      "duplicate"      INSERT raised IntegrityError (UNIQUE)
\*      "not_null"       INSERT raised IntegrityError (content is None)
\*      "locked_select", "locked_insert", "locked_commit"
\*                       the statement raised OperationalError
\*   cancelled                     a poll found the client gone
NoLog == [ file_exists |-> TRUE, key_set |-> TRUE, lines |-> <<>>,
           polls |-> 0, selects |-> 0, gens |-> 0, inserts |-> 0,
           outcomes |-> <<>>, cancelled |-> FALSE ]

Init ==
    /\ store = <<>>
    /\ conn = [r \in Runs |-> ClosedConn]
    /\ pc = [r \in Runs |-> "idle"]
    /\ questions_to_process = [r \in Runs |-> <<>>]
    /\ idx = [r \in Runs |-> 0]
    /\ processed_count = [r \in Runs |-> 0]
    /\ failed_questions = [r \in Runs |-> <<>>]
    /\ disconnected = [r \in Runs |-> FALSE]
    /\ response = [r \in Runs |-> NoResponse]
    /\ log = [r \in Runs |-> NoLog]

(* ---------------------------- actions ---------------------------------- *)
\* a failed list that holds each title once
RecordFailureOnce(fl, title) ==
    IF \E k \in 1..Len(fl) : fl[k] = title THEN fl ELSE Append(fl, title)

\* a failed list that grows at its head
RecordFailureFirst(fl, title) == <<title>> \o fl

\* failed_questions.append(title) in the two except clauses
RecordFailure(fl, title) == Append(fl, title)

\* a loop that goes on to the next title without recording how the
\* current one ended
EndOfItemUnrecorded(r, p, fl, c, st, lg) ==
    /\ UNCHANGED << processed_count, failed_questions >>
    /\ store' = st
    /\ log' = [log EXCEPT ![r] = [lg EXCEPT !.outcomes = log[r].outcomes]]
    /\ idx' = [idx EXCEPT ![r] = @ + 1]
    /\ IF idx[r] < Len(questions_to_process[r])
       THEN /\ pc' = [pc EXCEPT ![r] = "poll"]
            /\ conn' = [conn EXCEPT ![r] = c]
            /\ response' = response
       ELSE /\ pc' = [pc EXCEPT ![r] = "done"]
            /\ conn' = [conn EXCEPT ![r] = ClosedConn]
            /\ response' = [response EXCEPT ![r] = FinalResponse(p, fl)]
    /\ UNCHANGED << questions_to_process, disconnected >>

\* a loop without the except clauses' fall-through: the first title that
\* fails ends the request
EndOfItemAbortsOnFailure(r, p, fl, c, st, lg) ==
    /\ processed_count' = [processed_count EXCEPT ![r] = p]
    /\ failed_questions' = [failed_questions EXCEPT ![r] = fl]
    /\ store' = st
    /\ log' = [log EXCEPT ![r] = lg]
    /\ idx' = [idx EXCEPT ![r] = @ + 1]
    /\ IF idx[r] < Len(questions_to_process[r]) /\ fl = failed_questions[r]
       THEN /\ pc' = [pc EXCEPT ![r] = "poll"]
            /\ conn' = [conn EXCEPT ![r] = c]
            /\ response' = response
       ELSE /\ pc' = [pc EXCEPT ![r] = "done"]
            /\ conn' = [conn EXCEPT ![r] = ClosedConn]
            /\ response' = [response EXCEPT ![r] = FinalResponse(p, fl)]
    /\ UNCHANGED << questions_to_process, disconnected >>

\* the end of one pass of the for loop: the next title's poll, or, after
\* the last title, conn.close() and the return
EndOfItem(r, p, fl, c, st, lg) ==
    /\ processed_count' = [processed_count EXCEPT ![r] = p]
    /\ failed_questions' = [failed_questions EXCEPT ![r] = fl]
    /\ store' = st
    /\ log' = [log EXCEPT ![r] = lg]
    /\ idx' = [idx EXCEPT ![r] = @ + 1]
    /\ IF idx[r] < Len(questions_to_process[r])
       THEN /\ pc' = [pc EXCEPT ![r] = "poll"]
            /\ conn' = [conn EXCEPT ![r] = c]
            /\ response' = response
       ELSE /\ pc' = [pc EXCEPT ![r] = "done"]
            /\ conn' = [conn EXCEPT ![r] = ClosedConn]
            /\ response' = [response EXCEPT ![r] = FinalResponse(p, fl)]
    /\ UNCHANGED << questions_to_process, disconnected >>

\* a handler that does not check the API key
ConfigErrorFileOnly(file_exists, key_set) == IF ~file_exists THEN 404 ELSE 0

\* the status the handler raises before it reads the file; 0: none
ConfigError(file_exists, key_set) ==
    IF ~file_exists THEN 404
    ELSE IF ~key_set THEN 500
    ELSE 0

\* POST /seed_questions arrives: the two checks, the file is read and
\* normalized, the connection is opened, and the loop is entered
Start(r, file_exists, key_set, lines) ==
    /\ pc[r] = "idle"
    /\   LET err == ConfigError(file_exists, key_set)
             qs  == Normalize(lines)
         IN  IF err # 0
             THEN /\ pc' = [pc EXCEPT ![r] = "done"]
                  /\ response' = [response EXCEPT ![r] = HttpError(err)]
                  /\ log' = [log EXCEPT ![r].file_exists = file_exists,
                                        ![r].key_set = key_set]
                  /\ UNCHANGED << questions_to_process, idx >>
             ELSE /\ log' = [log EXCEPT ![r].file_exists = file_exists,
                                        ![r].key_set = key_set,
                                        ![r].lines = lines]
                  /\ questions_to_process' = [questions_to_process EXCEPT ![r] = qs]
                  /\ idx' = [idx EXCEPT ![r] = 1]
                  /\ IF qs = <<>>
                     THEN /\ pc' = [pc EXCEPT ![r] = "done"]
                          /\ response' = [response EXCEPT ![r] = FinalResponse(0, <<>>)]
                     ELSE /\ pc' = [pc EXCEPT ![r] = "poll"]
                          /\ response' = response
    /\ UNCHANGED << store, conn, processed_count, failed_questions, disconnected >>

\* a disconnect that cancels the handler while it waits for the generator
DisconnectAbortsCall(r) ==
    /\ pc[r] \in {"poll", "gen"}
    /\ ~disconnected[r]
    /\ disconnected' = [disconnected EXCEPT ![r] = TRUE]
    /\ IF pc[r] = "gen"
       THEN /\ pc' = [pc EXCEPT ![r] = "done"]
            /\ conn' = [conn EXCEPT ![r] = ClosedConn]
            /\ response' = [response EXCEPT ![r] =
                              CancelResponse(processed_count[r], failed_questions[r])]
            /\ log' = [log EXCEPT ![r].cancelled = TRUE]
       ELSE UNCHANGED << pc, conn, response, log >>
    /\ UNCHANGED << store, questions_to_process, idx, processed_count,
                    failed_questions >>

\* the client of r closes its connection
Disconnect(r) ==
    /\ pc[r] \in {"poll", "gen"}
    /\ ~disconnected[r]
    /\ disconnected' = [disconnected EXCEPT ![r] = TRUE]
    /\ UNCHANGED << store, conn, pc, questions_to_process, idx, processed_count,
                    failed_questions, response, log >>

\* a handler that does not look at the connection
IsDisconnectedNever(r) == FALSE

\* await request.is_disconnected()
IsDisconnected(r) == disconnected[r]

\* request.is_disconnected() returns: the 499 return, or the duplicate
\* check and then the skip, the failure, or the generator call
AfterPoll(r) ==
    /\ pc[r] = "poll"
    /\ LET title == questions_to_process[r][idx[r]]
           lg    == [log[r] EXCEPT !.polls = @ + 1]
       IN  IF IsDisconnected(r)
           THEN /\ pc' = [pc EXCEPT ![r] = "done"]
                /\ conn' = [conn EXCEPT ![r] = ClosedConn]
                /\ response' = [response EXCEPT ![r] =
                                  CancelResponse(processed_count[r], failed_questions[r])]
                /\ log' = [log EXCEPT ![r] = [lg EXCEPT !.cancelled = TRUE]]
                /\ UNCHANGED << store, questions_to_process, idx, processed_count,
                                failed_questions, disconnected >>
           ELSE LET sel == SqlSelect(r, title)
                    lgs == [lg EXCEPT !.selects = @ + 1]
                IN  IF sel.error
                    THEN EndOfItem(r, processed_count[r], RecordFailure(failed_questions[r], title),
                                   sel.conn, store,
                                   [lgs EXCEPT !.outcomes = Append(@, "locked_select")])
                    ELSE IF sel.found
                    THEN EndOfItem(r, processed_count[r] + 1, failed_questions[r],
                                   sel.conn, store, [lgs EXCEPT !.outcomes = Append(@, "skipped")])
                    ELSE /\ pc' = [pc EXCEPT ![r] = "gen"]
                         /\ conn' = [conn EXCEPT ![r] = sel.conn]
                         /\ log' = [log EXCEPT ![r] = [lgs EXCEPT !.gens = @ + 1]]
                         /\ UNCHANGED << store, questions_to_process, idx, processed_count,
                                         failed_questions, disconnected, response >>

\* the generator call returns (or raises): the insert and its commit, or
\* the title is recorded as failed
AfterGenerate(r, out) ==
    /\ pc[r] = "gen"
    /\   LET title == questions_to_process[r][idx[r]]
             p     == processed_count[r]
             fl    == failed_questions[r]
             lg    == log[r]
         IN  IF out = GenRaise
             THEN EndOfItem(r, p, RecordFailure(fl, title), conn[r], store,
                            [lg EXCEPT !.outcomes = Append(@, "gen_failed")])
             ELSE LET ins == SqlInsert(r, title, out)
                      lgi == [lg EXCEPT !.inserts = @ + 1]
                  IN  IF ins.error = "IntegrityError"
                      THEN EndOfItem(r, p, RecordFailure(fl, title), ins.conn, store,
                                     [lgi EXCEPT !.outcomes = Append(@,
                                         IF NotNullViolation(out) THEN "not_null"
                                         ELSE "duplicate")])
                      ELSE IF ins.error = "OperationalError"
                      THEN EndOfItem(r, p, RecordFailure(fl, title), ins.conn, store,
                                     [lgi EXCEPT !.outcomes = Append(@, "locked_insert")])
                      ELSE LET com == SqlCommit(r, ins.conn)
                           IN  IF com.error
                               THEN EndOfItem(r, p, RecordFailure(fl, title), com.conn, store,
                                              [lgi EXCEPT !.outcomes = Append(@, "locked_commit")])
                               ELSE EndOfItem(r, p + 1, fl, com.conn, com.store,
                                              [lgi EXCEPT !.outcomes = Append(@, "stored")])

Next ==
    \E r \in Runs :
        \/ /\ pc[r] = "idle"
           /\ \E file_exists \in BOOLEAN, key_set \in BOOLEAN, lines \in SourceLists :
                Start(r, file_exists, key_set, lines)
        \/ Disconnect(r)
        \/ AfterPoll(r)
        \/ \E out \in GenOutcomes : AfterGenerate(r, out)

Spec == Init /\ [][Next]_vars

\* requests that run one after the other on one unchanged questions.txt:
\* a request starts when no other is in flight, and reads the lines the
\* request before it read
SeqFiles(r) ==
    LET before == { o \in Runs \ {r} : pc[o] = "done" /\ response[o].status \notin {404, 500} }
    IN  IF before = {} THEN SeqSourceLists ELSE { log[o].lines : o \in before }

SeqNext ==
    \E r \in Runs :
        \/ /\ pc[r] = "idle"
           /\ \A o \in Runs \ {r} : pc[o] \in {"idle", "done"}
           /\ \E file_exists \in BOOLEAN, key_set \in BOOLEAN, lines \in SeqFiles(r) :
                Start(r, file_exists, key_set, lines)
        \/ Disconnect(r)
        \/ AfterPoll(r)
        \/ \E out \in GenOutcomes : AfterGenerate(r, out)

SeqSpec == Init /\ [][SeqNext]_vars

\* requests in flight together on one unchanged questions.txt of RaceLen
\* titles
RaceLen == 3
RaceLists == { l \in SeqsUpTo(Lines, RaceLen) : Len(l) = RaceLen }

RaceFiles(r) ==
    LET before == { o \in Runs \ {r} : pc[o] # "idle" }
    IN  IF before = {} THEN RaceLists ELSE { log[o].lines : o \in before }

RaceNext ==
    \E r \in Runs :
        \/ /\ pc[r] = "idle"
           /\ \E lines \in RaceFiles(r) : Start(r, TRUE, TRUE, lines)
        \/ Disconnect(r)
        \/ AfterPoll(r)
        \/ \E out \in GenOutcomes : AfterGenerate(r, out)

RaceSpec == Init /\ [][RaceNext]_vars

\* requests in flight together on one unchanged questions.txt of LiveLen
\* titles, under the scheduling the event loop gives them: a poll that
\* can return does return, and a generator call returns or raises (the
\* HTTP client of the generator has a timeout)
LiveLen == 2
LiveLists == { l \in SeqsUpTo(Lines, LiveLen) : Len(l) = LiveLen }

LiveFiles(r) ==
    LET before == { o \in Runs \ {r} : pc[o] # "idle" }
    IN  IF before = {} THEN LiveLists ELSE { log[o].lines : o \in before }

LiveNext ==
    \E r \in Runs :
        \/ /\ pc[r] = "idle"
           /\ \E lines \in LiveFiles(r) : Start(r, TRUE, TRUE, lines)
        \/ Disconnect(r)
        \/ AfterPoll(r)
        \/ \E out \in GenOutcomes : AfterGenerate(r, out)

LiveSpec ==
    /\ Init /\ [][LiveNext]_vars
    /\ \A r \in Runs :
           /\ WF_vars(AfterPoll(r))
           /\ WF_vars(\E out \in GenOutcomes : AfterGenerate(r, out))

(* ===================== the claims about the job ======================== *)
Count(seq, kinds) == Cardinality({ i \in 1..Len(seq) : seq[i] \in kinds })
RowsWithTitle(t) == { i \in 1..Len(store) : store[i].title = t }

\* request r has returned from the loop or from the poll (not from a
\* configuration check)
Returned(r) == pc[r] = "done" /\ response[r].status \in {200, 207, 499}

\* positions of request r's list that ended in one of the given ways
Ended(r, kinds) == { i \in 1..Len(log[r].outcomes) : log[r].outcomes[i] \in kinds }
TitlesEnded(r, kinds) == { questions_to_process[r][i] : i \in Ended(r, kinds) }

\* the generator gave no usable answer: it raised, or its content was None
GenFailure == {"gen_failed", "not_null"}
\* the generator gave an answer and the INSERT was executed with it
InsertTried == {"stored", "duplicate", "locked_insert", "locked_commit"}

\* the distinct non-blank titles of a file, trimmed
ExpectedTitles(lines) == { Strip(lines[i]) : i \in 1..Len(lines) } \ { <<>> }

\* C1: in every reachable state, however the requests interleave, table
\* questions holds at most one row per title.
C1_AtMostOneRecordPerTitle ==
    \A i, j \in 1..Len(store) : store[i].title = store[j].title => i = j

\* C1 witness: a request passed the duplicate check, generated an answer,
\* and its INSERT was rejected by the UNIQUE constraint because another
\* request had stored the title in between.
C1_LostRaceReached ==
    \E r \in Runs : \E i \in Ended(r, {"duplicate"}) :
        RowsWithTitle(questions_to_process[r][i]) # {}

\* C2 (as claimed): when two requests in flight together, whose generator
\* answered every call, have both looked for the same title, not found
\* it, generated an answer and executed the INSERT, then once both have
\* returned the table holds exactly one row
\* with that title, and a request whose insert did not succeed lists the
\* title in its failed_questions.
C2_RaceLeavesOneRecord ==
    \A r, o \in Runs :
        ( /\ r # o /\ Returned(r) /\ Returned(o)
          /\ Ended(r, GenFailure) = {} /\ Ended(o, GenFailure) = {} ) =>
            \A t \in TitlesEnded(r, InsertTried) \cap TitlesEnded(o, InsertTried) :
                /\ Cardinality(RowsWithTitle(t)) = 1
                /\ \A q \in {r, o} :
                       t \notin TitlesEnded(q, {"stored"})
                           => \E k \in 1..Len(failed_questions[q]) : failed_questions[q][k] = t

\* C3: two requests one after the other on the same file, the table
\* empty at first, every generator call answered, no client gone: after
\* the second, no request has a failed title and the table holds exactly
\* one row per distinct non-blank (trimmed) title of the file.
C3_TwoRunsConverge ==
    \A r, o \in Runs :
        ( /\ r # o
          /\ Returned(r) /\ Returned(o)
          /\ log[r].lines = log[o].lines
          /\ ~log[r].cancelled /\ ~log[o].cancelled
          /\ Ended(r, GenFailure) = {} /\ Ended(o, GenFailure) = {} )
        => /\ failed_questions[r] = <<>> /\ failed_questions[o] = <<>>
           /\ response[r].failed_questions = <<>> /\ response[o].failed_questions = <<>>
           /\ Titles(store) = ExpectedTitles(log[r].lines)
           /\ Len(store) = Cardinality(ExpectedTitles(log[r].lines))

\* C3 witness: both requests have returned on a two-line file that has one
\* distinct title, the first stored it once, the second skipped every
\* title.
C3_SecondRunSkipsAll ==
    \E r, o \in Runs :
        /\ r # o /\ Returned(r) /\ Returned(o)
        /\ log[r].lines = log[o].lines /\ Len(log[r].lines) = SeqMaxLen
        /\ Len(questions_to_process[r]) = SeqMaxLen
        /\ Cardinality(ExpectedTitles(log[r].lines)) < SeqMaxLen
        /\ Ended(r, {"stored"}) # {}
        /\ Ended(o, {"skipped"}) = 1..Len(questions_to_process[o])
        /\ Len(store) = Cardinality(ExpectedTitles(log[r].lines))

\* C4: after a request that ran alone, was not cancelled and had every
\* generator call answered, every non-blank title of its normalized list
\* is in the table.
C4_EveryTitleStored ==
    \A r \in Runs :
        (Returned(r) /\ ~log[r].cancelled /\ Ended(r, GenFailure) = {})
        => /\ \A i \in 1..Len(questions_to_process[r]) :
                  RowsWithTitle(questions_to_process[r][i]) # {}
           /\ ExpectedTitles(log[r].lines) \subseteq Titles(store)

\* C4 witness: such a request has returned after storing a title of a file
\* that also had a blank line.
C4_RunStoredItsTitles ==
    \E r \in Runs :
        /\ Returned(r) /\ ~log[r].cancelled /\ Ended(r, GenFailure) = {}
        /\ Ended(r, {"stored"}) # {}
        /\ Len(questions_to_process[r]) < Len(log[r].lines)

\* C5 (as claimed): in a request that was not cancelled, whose generator
\* failed for title x and for no other title, failed_questions holds x
\* and otherwise only titles whose INSERT lost to a duplicate, and every
\* other title of the list is in the table when the request returns.
C5_OnlyTheFailedTitle ==
    \A r \in Runs :
        (Returned(r) /\ ~log[r].cancelled) =>
            \A x \in TitlesEnded(r, GenFailure) :
                ( /\ TitlesEnded(r, GenFailure) = {x}
                  /\ x \notin TitlesEnded(r, InsertTried) )
                => /\ x \in Range(failed_questions[r])
                   /\ Range(failed_questions[r]) \subseteq {x} \cup TitlesEnded(r, {"duplicate"})
                   /\ \A t \in Range(questions_to_process[r]) \ {x} : RowsWithTitle(t) # {}

\* C6 (as claimed): a request stopped by the poll after n titles were
\* inserted returns 499 with processed_count n, or fewer.
C6_CountAtMostInserted ==
    \A r \in Runs :
        log[r].cancelled =>
            /\ response[r].status = 499
            /\ response[r].processed_count <= Cardinality(Ended(r, {"stored"}))

\* C6 (amended): a request stopped by the poll after n titles were
\* inserted returns 499 with processed_count n plus the number of titles
\* it skipped as duplicates; the n rows are in the table; the title at
\* the poll and the later ones got no SELECT and no generator call, and
\* no generator call is in flight.
C6_CancelledSummary ==
    \A r \in Runs :
        log[r].cancelled =>
            /\ pc[r] = "done"
            /\ response[r].status = 499
            /\ response[r].processed_count =
                   Cardinality(Ended(r, {"stored"})) + Cardinality(Ended(r, {"skipped"}))
            /\ \A t \in TitlesEnded(r, {"stored"}) : RowsWithTitle(t) # {}
            /\ Len(log[r].outcomes) = idx[r] - 1
            /\ idx[r] <= Len(questions_to_process[r])
            /\ log[r].selects = Len(log[r].outcomes)
            /\ log[r].gens = Len(log[r].outcomes) - Count(log[r].outcomes, {"skipped", "locked_select"})

\* C6 witness: a request was stopped by the poll after it had skipped a
\* duplicate.
C6_CancelledAfterSkip ==
    \E r \in Runs : log[r].cancelled /\ Ended(r, {"skipped"}) # {}

\* C7: a request that passed the configuration checks returns 499 exactly
\* when a poll found the client gone, also with failed titles; otherwise
\* 207 exactly when failed_questions is not empty; otherwise 200.
C7_TerminalStatus ==
    \A r \in Runs :
        (pc[r] = "done" /\ log[r].file_exists /\ log[r].key_set) =>
            /\ response[r].status \in {200, 207, 499}
            /\ response[r].status = 499 <=> log[r].cancelled
            /\ ~log[r].cancelled =>
                   /\ response[r].status = 207 <=> failed_questions[r] # <<>>
                   /\ response[r].status = 200 <=> failed_questions[r] = <<>>

\* C7 witness: a request with a failed title was stopped by the poll.
C7_CancelledWithFailures ==
    \E r \in Runs :
        /\ pc[r] = "done" /\ log[r].cancelled
        /\ failed_questions[r] # <<>>
        /\ response[r].status = 499

\* C8 (as claimed): whatever the status (200, 207, 499), the result lists
\* exactly the titles the request recorded as failed.
C8_ResultListsFailures ==
    \A r \in Runs :
        Returned(r) => response[r].failed_questions = failed_questions[r]

\* C8 (amended): a 200 or 207 result lists exactly the titles the request
\* recorded as failed; a 499 result carries processed_count only and lists
\* no title, whatever failed before the stop.
C8_ResultListsFailuresUnlessCancelled ==
    \A r \in Runs :
        Returned(r) =>
            /\ response[r].status \in {200, 207}
                   => response[r].failed_questions = failed_questions[r]
            /\ response[r].status = 499
                   => /\ response[r].failed_questions = <<>>
                      /\ response[r].processed_count = processed_count[r]

\* C8 witness: one request returned 207 listing its failed title, another
\* returned 499 after a title had failed.
C8_PartialAndCancelledReached ==
    \E r, o \in Runs :
        /\ Returned(r) /\ response[r].status = 207
        /\ response[r].failed_questions # <<>>
        /\ Returned(o) /\ response[o].status = 499
        /\ failed_questions[o] # <<>>

\* what a request that did nothing looks like
NothingDone(r) ==
    /\ log[r].polls = 0 /\ log[r].selects = 0
    /\ log[r].gens = 0 /\ log[r].inserts = 0
    /\ log[r].outcomes = <<>>
    /\ conn[r] = ClosedConn
    /\ processed_count[r] = 0 /\ failed_questions[r] = <<>>
    /\ questions_to_process[r] = <<>>

\* C9: a request that finds no questions.txt returns 404, one that finds
\* the file but no API key returns 500, and either returns at once: no
\* poll, no SELECT, no generator call, no INSERT, nothing stored by it.
C9_ConfigurationErrors ==
    \A r \in Runs :
        pc[r] # "idle" =>
            /\ ~log[r].file_exists
                   => pc[r] = "done" /\ response[r].status = 404 /\ NothingDone(r)
            /\ (log[r].file_exists /\ ~log[r].key_set)
                   => pc[r] = "done" /\ response[r].status = 500 /\ NothingDone(r)
            /\ (log[r].file_exists /\ log[r].key_set)
                   => response[r].status \notin {404, 500}

\* C9 witness: one request returned 404 and another 500.
C9_BothErrorsReached ==
    \E r, o \in Runs :
        /\ pc[r] = "done" /\ response[r].status = 404 /\ ~log[r].file_exists
        /\ pc[o] = "done" /\ response[o].status = 500 /\ ~log[o].key_set

\* C10: a row of the table is never changed or removed: every step of
\* every request keeps each committed row, with its id, title and content,
\* at its place.
C10_RowsNeverChange ==
    [][ /\ Len(store') >= Len(store)
        /\ \A i \in 1..Len(store) : store'[i] = store[i] ]_vars

\* C10 witness: the table holds two rows while one request has lost an
\* insert to a duplicate and one was stopped by the poll.
C10_RowsKeptThroughFailures ==
    /\ Len(store) >= 2
    /\ \E r \in Runs : log[r].cancelled
    /\ \E r \in Runs : Ended(r, {"duplicate"}) # {}

\* the titles, in order, of the attempts of r that ended in one of kinds
RECURSIVE TitlesOf(_, _, _)
TitlesOf(r, kinds, n) ==
    IF n = 0 THEN <<>>
    ELSE IF log[r].outcomes[n] \in kinds
         THEN Append(TitlesOf(r, kinds, n - 1), questions_to_process[r][n])
         ELSE TitlesOf(r, kinds, n - 1)

\* an attempt that raised: in the generator or in the database
Raised == {"gen_failed", "duplicate", "not_null",
           "locked_select", "locked_insert", "locked_commit"}

\* C11 (as claimed): when a request has returned, no title of its
\* failed_questions has a row in the table.
C11_FailedHaveNoRecord ==
    \A r \in Runs :
        Returned(r) =>
            \A k \in 1..Len(failed_questions[r]) :
                RowsWithTitle(failed_questions[r][k]) = {}

\* C11 (amended): failed_questions is, in order, the titles of the
\* attempts of this request that raised; a listed title can have a row,
\* and then some request (another one, or this one at another attempt or
\* at a later commit) inserted that title.
C11_FailedAreRaisedAttempts ==
    [](\A r \in Runs :
        /\ failed_questions[r] = TitlesOf(r, Raised, Len(log[r].outcomes))
        /\ Returned(r) =>
               \A k \in 1..Len(failed_questions[r]) :
                   RowsWithTitle(failed_questions[r][k]) # {}
                       => \E q \in Runs :
                              failed_questions[r][k]
                                  \in TitlesEnded(q, {"stored", "locked_commit"}))

\* C11 witness: a request returned listing one title twice, the title
\* has a row, and another request stored it.
C11_ListedTwiceAndStored ==
    \E r \in Runs : \E o \in Runs \ {r} :
        /\ Returned(r)
        /\ Len(failed_questions[r]) = 2
        /\ failed_questions[r][1] = failed_questions[r][2]
        /\ RowsWithTitle(failed_questions[r][1]) # {}
        /\ failed_questions[r][1] \in TitlesEnded(o, {"stored"})

\* C12 (as claimed): every row of the table has a non-empty title and a
\* non-empty content, whatever the generator returned.
C12_RecordsPopulated ==
    \A i \in 1..Len(store) :
        /\ store[i].title # <<>>
        /\ store[i].content # NoneContent
        /\ store[i].content # ""

\* an attempt for which the generator was called
GenCalled == {"gen_failed", "stored", "duplicate", "not_null",
              "locked_insert", "locked_commit"}

\* C13: a request has at most one generator call in flight: the calls it
\* started are the calls whose title has its outcome recorded, plus one
\* exactly while it waits for the generator; and while it waits, every
\* earlier title of the list has its outcome recorded in processed_count
\* or failed_questions.
C13_OneCallInFlight ==
    [](\A r \in Runs :
        LET finished == Count(log[r].outcomes, GenCalled)
        IN  /\ log[r].gens \in {finished, finished + 1}
            /\ pc[r] = "gen" <=> log[r].gens = finished + 1
            /\ pc[r] = "gen" =>
                   /\ Len(log[r].outcomes) = idx[r] - 1
                   /\ processed_count[r] + Len(failed_questions[r]) = idx[r] - 1)

\* C13 witness: a request waits for its second generator call, the first
\* having returned, while the other request waits for a call of its own.
C13_SecondCallInFlight ==
    \E r \in Runs : \E o \in Runs \ {r} :
        /\ pc[r] = "gen" /\ idx[r] = 2 /\ log[r].gens = 2
        /\ pc[o] = "gen"

\* request r executes its SELECT in this step
Selects(r) == log[r].selects' = log[r].selects + 1

\* the outcome request r records in this step, "" if none
Recorded(r) ==
    IF Len(log[r].outcomes') = Len(log[r].outcomes) + 1
    THEN log[r].outcomes'[Len(log[r].outcomes')] ELSE ""

\* C14: a step in which the SELECT of a request finds its title (always,
\* when the title has a row and the SELECT does not raise) is a skip: no
\* generator call, no INSERT, the table and failed_questions as before,
\* processed_count one more.
C14_SkipFrame ==
    [][ \A r \in Runs :
          /\ ( /\ Selects(r)
               /\ RowsWithTitle(questions_to_process[r][idx[r]]) # {}
               /\ Recorded(r) # "locked_select" ) => Recorded(r) = "skipped"
          /\ Recorded(r) = "skipped" =>
                 /\ Selects(r)
                 /\ log[r].gens' = log[r].gens
                 /\ log[r].inserts' = log[r].inserts
                 /\ pc'[r] # "gen"
                 /\ store' = store
                 /\ failed_questions' = failed_questions
                 /\ processed_count'[r] = processed_count[r] + 1
                 /\ \A o \in Runs \ {r} : processed_count'[o] = processed_count[o]
      ]_vars

\* C14 witness: a request skipped a title that the other request stored,
\* and a title that it had stored itself.
C14_SkippedOwnAndOthers ==
    \E r \in Runs : \E o \in Runs \ {r} :
        /\ \E i \in Ended(r, {"skipped"}) :
               questions_to_process[r][i] \in TitlesEnded(o, {"stored"})
        /\ \E i \in Ended(o, {"skipped"}) :
               questions_to_process[o][i] \in TitlesEnded(o, {"stored"})

\* request r gets the answer of request.is_disconnected() in this step
Polls(r) == log[r].polls' = log[r].polls + 1

\* C15: a poll that finds the client gone stops the request in that very
\* step with the 499 result: no SELECT, no generator call, no INSERT, no
\* outcome for the title at the poll, failed_questions, processed_count
\* and the table as before; and a request that has returned does nothing
\* more, so the later titles get none of these either.
C15_StopFrame ==
    [][ \A r \in Runs :
          /\ (Polls(r) /\ disconnected[r]) =>
                 /\ pc'[r] = "done" /\ response'[r].status = 499
                 /\ response'[r].processed_count = processed_count[r]
                 /\ log[r].selects' = log[r].selects
                 /\ log[r].gens' = log[r].gens
                 /\ log[r].inserts' = log[r].inserts
                 /\ log[r].outcomes' = log[r].outcomes
                 /\ idx' = idx
                 /\ failed_questions' = failed_questions
                 /\ processed_count' = processed_count
                 /\ store' = store
          /\ pc[r] = "done" =>
                 /\ log'[r] = log[r] /\ idx'[r] = idx[r] /\ pc'[r] = "done"
                 /\ failed_questions'[r] = failed_questions[r]
                 /\ processed_count'[r] = processed_count[r]
                 /\ response'[r] = response[r]
      ]_vars

\* C15 witness: a request was stopped at its second title after storing
\* the first; the second title has no row and is not listed as failed.
C15_StoppedAtSecondTitle ==
    \E r \in Runs :
        /\ log[r].cancelled /\ pc[r] = "done"
        /\ idx[r] = 2 /\ Len(questions_to_process[r]) = 2
        /\ log[r].outcomes = <<"stored">>
        /\ RowsWithTitle(questions_to_process[r][2]) = {}
        /\ failed_questions[r] = <<>>

\* C16: the client's going is seen only by the poll at the start of a
\* title: a request that waits for the generator while its client is gone
\* keeps waiting, and the step that ends the wait applies the outcome of
\* the call (a stored title has its row and counts in processed_count, a
\* raised one is appended to failed_questions) and goes on to the next
\* poll or, after the last title, to the 200 or 207 result.
C16_CallRunsToCompletion ==
    [][ \A r \in Runs :
          /\ (log[r].cancelled' /\ ~log[r].cancelled) => Polls(r)
          /\ (pc[r] = "gen" /\ disconnected'[r] /\ pc'[r] # "gen") =>
                 LET title == questions_to_process[r][idx[r]]
                 IN  /\ Recorded(r) \in GenCalled
                     /\ ~log[r].cancelled'
                     /\ Recorded(r) = "stored" =>
                            /\ \E i \in 1..Len(store') : store'[i].title = title
                            /\ processed_count'[r] = processed_count[r] + 1
                            /\ failed_questions'[r] = failed_questions[r]
                     /\ Recorded(r) # "stored" =>
                            /\ failed_questions'[r] = Append(failed_questions[r], title)
                            /\ processed_count'[r] = processed_count[r]
                            /\ store' = store
                     /\ \/ pc'[r] = "poll"
                        \/ pc'[r] = "done" /\ response'[r].status \in {200, 207}
      ]_vars

\* C16 witness: the client of a request with a single title left while
\* the generator call was outstanding; the title was stored and the
\* request returned 200, never having seen that the client was gone.
C16_StoredAfterClientLeft ==
    \E r \in Runs :
        /\ pc[r] = "done" /\ disconnected[r] /\ ~log[r].cancelled
        /\ Len(questions_to_process[r]) = 1
        /\ log[r].outcomes = <<"stored">>
        /\ response[r].status = 200
        /\ RowsWithTitle(questions_to_process[r][1]) # {}

\* an attempt that executed the INSERT
InsertCalled == {"stored", "duplicate", "not_null", "locked_insert", "locked_commit"}

\* a request that returned from the loop attempted each title of its list
\* once, in one pass
AttemptedAllOnce(r) ==
    /\ response[r].status \in {200, 207}
    /\ idx[r] = Len(questions_to_process[r]) + 1
    /\ Len(log[r].outcomes) = Len(questions_to_process[r])
    /\ log[r].polls = Len(questions_to_process[r])
    /\ log[r].selects = Len(questions_to_process[r])
    /\ log[r].gens = Count(log[r].outcomes, GenCalled)
    /\ log[r].inserts = Count(log[r].outcomes, InsertCalled)
    /\ processed_count[r] + Len(failed_questions[r]) = Len(questions_to_process[r])

\* C17: a request that is not stopped by the poll attempts every title of
\* its normalized list exactly once (one poll, one SELECT, at most one
\* generator call and one INSERT per title), whatever failed on the way,
\* and every request that has entered the loop returns a result.
C17_EveryItemOnceThenReturns ==
    /\ [](\A r \in Runs : (Returned(r) /\ ~log[r].cancelled) => AttemptedAllOnce(r))
    /\ \A r \in Runs : (pc[r] \in {"poll", "gen"}) ~> (pc[r] = "done")

\* C17 witness: a request returned 207 after two titles, the first lost
\* to a generator failure and the second to the UNIQUE constraint.
C17_ReturnedAfterTwoFailures ==
    \E r \in Runs :
        /\ Returned(r) /\ ~log[r].cancelled
        /\ log[r].outcomes = <<"gen_failed", "duplicate">>
        /\ response[r].status = 207

\* fl is, title by title, the list qs at some increasing positions among
\* the first n whose attempt raised
SubsequenceOfRaised(r, fl, qs, n) ==
    \E f \in [1..Len(fl) -> 1..n] :
        /\ \A j, k \in 1..Len(fl) : j < k => f[j] < f[k]
        /\ \A k \in 1..Len(fl) : qs[f[k]] = fl[k] /\ log[r].outcomes[f[k]] \in Raised

\* C18: the titles are attempted in list order, so the attempted ones are
\* always a prefix of the normalized list: each outcome recorded is that
\* of the title after the ones recorded before. failed_questions is a
\* subsequence of that prefix, in list order, with one entry for every
\* attempt that raised (a title that fails twice is listed twice), and a
\* 207 result lists just that.
C18_AttemptedPrefixInOrder ==
    /\ [][ \A r \in Runs :
              Recorded(r) # "" =>
                  /\ idx[r] = Len(log[r].outcomes) + 1
                  /\ idx'[r] = idx[r] + 1
                  /\ \/ failed_questions'[r] = failed_questions[r]
                     \/ failed_questions'[r] =
                            Append(failed_questions[r], questions_to_process[r][idx[r]])
       ]_vars
    /\ [](\A r \in Runs :
            /\ Len(log[r].outcomes) <= Len(questions_to_process[r])
            /\ pc[r] \in {"poll", "gen"} => Len(log[r].outcomes) = idx[r] - 1
            /\ Len(failed_questions[r]) = Count(log[r].outcomes, Raised)
            /\ SubsequenceOfRaised(r, failed_questions[r], questions_to_process[r],
                                   Len(log[r].outcomes))
            /\ response[r].status = 207 =>
                   response[r].failed_questions = failed_questions[r])

\* C18 witness: a request whose list holds one title twice failed on it
\* twice and returned it twice.
C18_FailedTwiceListedTwice ==
    \E r \in Runs :
        /\ Returned(r)
        /\ Len(questions_to_process[r]) = 2
        /\ questions_to_process[r][1] = questions_to_process[r][2]
        /\ log[r].outcomes = <<"gen_failed", "gen_failed">>
        /\ response[r].failed_questions = questions_to_process[r]

\* request o executes a statement of its loop body to the end in this step
Acts(o) == Recorded(o) # ""

\* C19 (as claimed): the generator call is the only point at which a
\* request is suspended: while a request is in its loop, another request
\* completes an item only when the first waits for the generator.
C19_OnlyGeneratorSuspends ==
    [][ \A r \in Runs : \A o \in Runs \ {r} :
          (pc[r] \in {"poll", "gen"} /\ Acts(o)) => pc[r] = "gen"
      ]_vars

\* C19 (amended): a request is suspended at the poll and at the generator
\* call, and nowhere else. From the return of the poll, the SELECT and
\* the skip with its count are one step; from the return of the generator
\* call, the INSERT, its commit (the row is in the table) and the update
\* of processed_count or failed_questions are one step. So a request has
\* executed its SELECT for a title without having recorded the outcome
\* exactly while it waits for the generator.
C19_SuspendedAtPollAndGenerator ==
    /\ [](\A r \in Runs :
            (log[r].selects = Len(log[r].outcomes) + 1) <=> (pc[r] = "gen"))
    /\ [][ \A r \in Runs :
              /\ (Polls(r) /\ ~disconnected[r]) => Selects(r)
              /\ Selects(r) => (Polls(r) /\ pc[r] = "poll")
              /\ Recorded(r) \in {"skipped", "locked_select"} => Selects(r)
              /\ Recorded(r) \in GenCalled => pc[r] = "gen"
              /\ Recorded(r) \in InsertCalled => log[r].inserts' = log[r].inserts + 1
              /\ Recorded(r) = "stored" =>
                     /\ \E i \in 1..Len(store') :
                            store'[i].title = questions_to_process[r][idx[r]]
                     /\ conn'[r].pending = <<>>
                     /\ processed_count'[r] = processed_count[r] + 1
       ]_vars

\* C19 witness: a request that stored its first title waits at the poll
\* of its second, and the other request has stored a title after it.
C19_OtherStoredDuringPoll ==
    \E r \in Runs : \E o \in Runs \ {r} :
        /\ pc[r] = "poll" /\ idx[r] = 2 /\ log[r].polls = 1
        /\ log[r].outcomes = <<"stored">>
        /\ Len(store) = 2
        /\ store[1].title = questions_to_process[r][1]
        /\ store[2].title \in TitlesEnded(o, {"stored"})
        /\ store[2].title # store[1].title

\* C20 (as claimed): at every item boundary and in the result of a
\* request, processed_count plus the length of failed_questions is the
\* number of titles attempted, and processed_count is the number of
\* skips plus the number of rows the request put in the table (all the
\* rows of the table, when no other request inserted any).
C20_Accounting ==
    \A r \in Runs :
        /\ pc[r] \in {"poll", "done"} =>
               processed_count[r] + Len(failed_questions[r]) = Len(log[r].outcomes)
        /\ Returned(r) => response[r].processed_count = processed_count[r]
        /\ ( /\ Returned(r)
             /\ \A o \in Runs \ {r} : Ended(o, {"stored", "locked_commit"}) = {} )
           => processed_count[r] = Count(log[r].outcomes, {"skipped"}) + Len(store)

====
